---- MODULE Spec2Model ----
(***************************************************************************)
(* WordWise Korean: the conjugation normaliser (stem extraction), the span *)
(* matcher built on it, and the content script's configuration-change      *)
(* handler with its timers.                                                *)
(*                                                                         *)
(* Text is a sequence of codepoints.  Every Hangul syllable block is one   *)
(* UTF-16 code unit, so String.length, endsWith and slice act on the       *)
(* sequence directly.  A codepoint is written by its romanisation:         *)
(*   a 아   ass 았   bap 밥   bu 부   da 다   do 도   eo 어   eoss 었      *)
(*   eu 으   eul 을   eun 은   ga 가   gan 간   ge 게   geo 거   gess 겠   *)
(*   go 고   gong 공   ha 하   hae 해   haess 했   i 이   ip 입   ji 지    *)
(*   kka 까   man 만   meok 먹   myeon 면   na 나   neun 는   ni 니   o 오 *)
(*   reul 를   rok 록   seo 서   seup 습   ui 의   yeo 여   yeoss 였       *)
(*   yo 요                                                                 *)
(* "bJamo" is the compatibility jamo ㅂ (U+3142) and " " the space;        *)
(* neither is in the range U+AC00..U+D7A3.                                 *)
(***************************************************************************)
EXTENDS Integers, Sequences, FiniteSets, TLC

VARIABLES
    \* ---- normaliser call: extractStemsForLookup(word) ----
    word,        \* the surface token handed to extractStemsForLookup
    candidates,  \* the StemCandidate[] it returned (<<>> before the call)
    stemPc,      \* "call" before the call, "done" after it; "add" while `add` is driven alone
    sighted,     \* the (stem, verbOnly) arguments `add` has been called with, in call order
    \* ---- matcher call: buildIndex(rawEntries), annotate(text, index, config) ----
    rawEntries,  \* the loaded word list handed to buildIndex
    index,       \* what buildIndex returned: [error, built, entries]
    text,        \* the text block
    config,      \* [targetLanguage, level]
    outcome,     \* the value annotate produced: [error, spans]
    annPc,       \* "build", then "ready" or "refused", then "done"
    \* ---- content script ----
    stored,      \* the config in chrome.storage.sync (the script's `config` copy follows it)
    annotator,   \* WordWiseAnnotator: [config, vocabLevel, updating, annotated, lastPass]
    observing,   \* the DOMObserver is started
    styleEm,     \* font-size written in the injected style element, in 1/1000 em
    timers,      \* pending setTimeout callbacks, in firing order
    changes,     \* number of storage changes delivered so far
    \* ---- content script start: main() and its sentinel observer ----
    body,        \* document.body.innerText when main() runs
    mainPc,      \* "start" before main() has run, "ran" after
    sentinel,    \* the sentinel MutationObserver: "none", "observing", "disconnected"
    initCount,   \* number of calls of initializeFull
    koreanSeen,  \* Korean text was present in the body at start or in a delivered mutation
    lastBatch,   \* the mutation records of the last sentinel callback
    delivered,   \* number of sentinel callbacks so far
    \* ---- generation and recognition of conjugated forms ----
    dictionaryForm,  \* the argument of generateConjugations
    forms,           \* [threw, list]: what generateConjugations(dictionaryForm) produced
    recognised,      \* couldBeConjugationOf(form, dictionaryForm) for the forms tried so far, in list order
    conjPc           \* "call" before generateConjugations, "check" after it

stemVars == <<word, candidates, stemPc, sighted>>
annVars == <<rawEntries, index, text, config, outcome, annPc>>
csVars == <<stored, annotator, observing, styleEm, timers, changes>>
mainVars == <<body, mainPc, sentinel, initCount, koreanSeen, lastBatch, delivered>>
conjVars == <<dictionaryForm, forms, recognised, conjPc>>
vars == <<word, candidates, stemPc, sighted, rawEntries, index, text, config, outcome, annPc,
          stored, annotator, observing, styleEm, timers, changes,
          body, mainPc, sentinel, initCount, koreanSeen, lastBatch, delivered,
          dictionaryForm, forms, recognised, conjPc>>

-----------------------------------------------------------------------------
(* String primitives of the host language, on codepoint sequences. *)

\* String.prototype.endsWith
EndsWith(w, suffix) ==
    /\ Len(suffix) <= Len(w)
    /\ SubSeq(w, Len(w) - Len(suffix) + 1, Len(w)) = suffix

\* word.slice(0, -n) / word.slice(0, word.length - n)
DropLast(w, n) == SubSeq(w, 1, Len(w) - n)

da == <<"da">>

-----------------------------------------------------------------------------
(* The rule tables of the normaliser. *)

\* VERB_ENDINGS as written, before the sort
VERB_ENDINGS_LITERAL ==
    << <<"seup", "ni", "da">>, <<"ip", "ni", "da">>, <<"bJamo", "ni", "da">>,
       <<"eo", "yo">>, <<"a", "yo">>, <<"yeo", "yo">>,
       <<"eo">>, <<"a">>, <<"yeo">>,
       <<"eun">>, <<"neun">>, <<"reul">>,
       <<"eoss", "seup", "ni", "da">>, <<"ass", "seup", "ni", "da">>, <<"yeoss", "seup", "ni", "da">>,
       <<"eoss", "eo", "yo">>, <<"ass", "eo", "yo">>, <<"yeoss", "eo", "yo">>,
       <<"eoss", "eo">>, <<"ass", "eo">>, <<"yeoss", "eo">>,
       <<"eoss", "da">>, <<"ass", "da">>, <<"yeoss", "da">>,
       <<"eul">>, <<"reul">>, <<"eun">>, <<"neun">>,
       <<"gess", "seup", "ni", "da">>, <<"gess", "eo", "yo">>, <<"gess", "eo">>,
       <<"go">>, <<"ji", "man">>, <<"geo", "na">>, <<"myeon", "seo">>,
       <<"eo", "seo">>, <<"a", "seo">>, <<"yeo", "seo">>,
       <<"ni", "kka">>, <<"eu", "ni", "kka">>,
       <<"ji">>, <<"ge">>, <<"do", "rok">> >>

\* The longest ending of a table
MaxEndingLen(table) ==
    CHOOSE n \in {Len(table[i]) : i \in DOMAIN table} :
        \A i \in DOMAIN table : Len(table[i]) <= n

\* Array.prototype.sort((a, b) => b.length - a.length): stable, longest first
RECURSIVE SortByLengthDesc(_, _)
SortByLengthDesc(table, n) ==
    IF n = 0 THEN <<>>
    ELSE SelectSeq(table, LAMBDA e : Len(e) = n) \o SortByLengthDesc(table, n - 1)

VERB_ENDINGS == SortByLengthDesc(VERB_ENDINGS_LITERAL, MaxEndingLen(VERB_ENDINGS_LITERAL))

VERB_ONLY_ENDINGS ==
    { <<"eoss", "seup", "ni", "da">>, <<"ass", "seup", "ni", "da">>, <<"yeoss", "seup", "ni", "da">>,
      <<"eoss", "eo", "yo">>, <<"ass", "eo", "yo">>, <<"yeoss", "eo", "yo">>,
      <<"eoss", "eo">>, <<"ass", "eo">>, <<"yeoss", "eo">>,
      <<"eoss", "da">>, <<"ass", "da">>, <<"yeoss", "da">>,
      <<"eo", "yo">>, <<"a", "yo">>, <<"yeo", "yo">>,
      <<"eo">>, <<"a">>, <<"yeo">>,
      <<"gess", "seup", "ni", "da">>, <<"gess", "eo", "yo">>, <<"gess", "eo">>,
      <<"go">>, <<"ji", "man">>, <<"geo", "na">>, <<"myeon", "seo">>,
      <<"eo", "seo">>, <<"a", "seo">>, <<"yeo", "seo">>,
      <<"ni", "kka">>, <<"eu", "ni", "kka">>,
      <<"ji">>, <<"ge">>, <<"do", "rok">> }

AMBIGUOUS_ENDINGS == { <<"neun">>, <<"eun">> }

\* [surface suffix, stem base]
\* the table with a further entry, 요, that is a suffix of the entries 했었어요, 했어요, 해요
HA_IRREGULAR_ENDINGS_WithYo ==
    << << <<"haess", "seup", "ni", "da">>, <<"ha">> >>,
       << <<"haess", "eoss", "eo", "yo">>, <<"ha">> >>,
       << <<"haess", "eo", "yo">>, <<"ha">> >>,
       << <<"haess", "eoss", "eo">>, <<"ha">> >>,
       << <<"haess", "eo">>, <<"ha">> >>,
       << <<"haess", "da">>, <<"ha">> >>,
       << <<"hae", "yo">>, <<"ha">> >>,
       << <<"hae", "seo">>, <<"ha">> >>,
       << <<"hae", "do">>, <<"ha">> >>,
       << <<"ha", "go">>, <<"ha">> >>,
       << <<"haess">>, <<"ha">> >>,
       << <<"hae">>, <<"ha">> >>,
       << <<"yo">>, <<"ha">> >> >>

HA_IRREGULAR_ENDINGS ==
    << << <<"haess", "seup", "ni", "da">>, <<"ha">> >>,
       << <<"haess", "eoss", "eo", "yo">>, <<"ha">> >>,
       << <<"haess", "eo", "yo">>, <<"ha">> >>,
       << <<"haess", "eoss", "eo">>, <<"ha">> >>,
       << <<"haess", "eo">>, <<"ha">> >>,
       << <<"haess", "da">>, <<"ha">> >>,
       << <<"hae", "yo">>, <<"ha">> >>,
       << <<"hae", "seo">>, <<"ha">> >>,
       << <<"hae", "do">>, <<"ha">> >>,
       << <<"ha", "go">>, <<"ha">> >>,
       << <<"haess">>, <<"ha">> >>,
       << <<"hae">>, <<"ha">> >> >>

VERB_POS == {"verb", "adjective", "expression"}

-----------------------------------------------------------------------------
(* extractStemsForLookup.  `seen` is the insertion-ordered Map stem ->     *)
(* verbOnly, kept as the sequence of its entries.                          *)

\* `add` where the latest sighting of a stem decides its flag
addLastSightingWins(seen, stem, verbOnly) ==
    IF \A i \in DOMAIN seen : seen[i].stem # stem
    THEN Append(seen, [stem |-> stem, verbOnly |-> verbOnly])
    ELSE [i \in DOMAIN seen |->
             IF seen[i].stem = stem THEN [stem |-> stem, verbOnly |-> verbOnly]
             ELSE seen[i]]

\* the closure `add`
add(seen, stem, verbOnly) ==
    IF \A i \in DOMAIN seen : seen[i].stem # stem
    THEN Append(seen, [stem |-> stem, verbOnly |-> verbOnly])
    ELSE IF ~verbOnly
         THEN [i \in DOMAIN seen |->
                  IF seen[i].stem = stem THEN [stem |-> stem, verbOnly |-> FALSE]
                  ELSE seen[i]]
         ELSE seen

\* MatchingHa with the guard of the regular loop (> instead of >=)
MatchingHaStrictlyLonger(w) ==
    SelectSeq(HA_IRREGULAR_ENDINGS, LAMBDA pair : EndsWith(w, pair[1]) /\ Len(w) > Len(pair[1]))

\* the table entries whose suffix the word ends with (the guard of the 하다 loop)
MatchingHa(w) ==
    SelectSeq(HA_IRREGULAR_ENDINGS, LAMBDA pair : EndsWith(w, pair[1]) /\ Len(w) >= Len(pair[1]))

\* the body of the loop over HA_IRREGULAR_ENDINGS, for an entry that passed the guard
HaStep(seen, w, pair) ==
    LET suffix == pair[1]
        base == pair[2]
        stem == DropLast(w, Len(suffix)) \o base
    IN IF Len(stem) > 0
       THEN add(add(seen, stem, TRUE), stem \o da, TRUE)
       ELSE seen

\* the loop, over the entries that pass the guard, in table order
RECURSIVE HaLoop(_, _, _)
HaLoop(seen, w, pairs) ==
    IF pairs = <<>> THEN seen
    ELSE HaLoop(HaStep(seen, w, Head(pairs)), w, Tail(pairs))

\* MatchingEndings that stops at the first (longest) ending that matches
MatchingEndingsLongestOnly(w) ==
    LET all == SelectSeq(VERB_ENDINGS, LAMBDA ending : EndsWith(w, ending) /\ Len(w) > Len(ending))
    IN IF all = <<>> THEN <<>> ELSE <<Head(all)>>

\* MatchingEndings with the guard of the irregular loop (>= instead of >)
MatchingEndingsWholeToken(w) ==
    SelectSeq(VERB_ENDINGS, LAMBDA ending : EndsWith(w, ending) /\ Len(w) >= Len(ending))

\* the endings the word ends with and is longer than (the guard of the regular loop)
MatchingEndings(w) ==
    SelectSeq(VERB_ENDINGS, LAMBDA ending : EndsWith(w, ending) /\ Len(w) > Len(ending))

\* EndingVerbOnly with the connective 고 missing from the verb-only set
EndingVerbOnlyWithoutGo(ending, stem) ==
    \/ ending \in VERB_ONLY_ENDINGS \ { <<"go">> }
    \/ ending \in AMBIGUOUS_ENDINGS /\ Len(stem) = 1

\* the verbOnly flag of a regular ending stripped down to `stem`
EndingVerbOnly(ending, stem) ==
    \/ ending \in VERB_ONLY_ENDINGS
    \/ ending \in AMBIGUOUS_ENDINGS /\ Len(stem) = 1

\* EndingStep that never adds the dictionary-form marker back
EndingStepWithoutDa(seen, w, ending) ==
    LET stem == DropLast(w, Len(ending))
    IN add(seen, stem, ending \in VERB_ONLY_ENDINGS \/ (ending \in AMBIGUOUS_ENDINGS /\ Len(stem) = 1))

\* the body of the loop over VERB_ENDINGS, for an ending that passed the guard
EndingStep(seen, w, ending) ==
    LET stem == DropLast(w, Len(ending))
        vo == EndingVerbOnly(ending, stem)
        s1 == add(seen, stem, vo)
    IN IF ~EndsWith(stem, da) THEN add(s1, stem \o da, vo) ELSE s1

\* the loop, over the endings that pass the guard, in table order
RECURSIVE EndingLoop(_, _, _)
EndingLoop(seen, w, endings) ==
    IF endings = <<>> THEN seen
    ELSE EndingLoop(EndingStep(seen, w, Head(endings)), w, Tail(endings))

\* IdentityAndBare that records the bare stem before the word itself
IdentityAndBareStemFirst(w) ==
    IF EndsWith(w, da) THEN add(add(<<>>, DropLast(w, 1), FALSE), w, FALSE)
    ELSE add(<<>>, w, FALSE)

\* the identity candidate and the bare stem of a dictionary form
IdentityAndBare(w) ==
    LET s0 == add(<<>>, w, FALSE)
    IN IF EndsWith(w, da) THEN add(s0, DropLast(w, 1), FALSE) ELSE s0

extractStemsForLookup(w) ==
    EndingLoop(HaLoop(IdentityAndBare(w), w, MatchingHa(w)), w, MatchingEndings(w))

-----------------------------------------------------------------------------
(* Vocabulary.  An entry is [word, partOfSpeech, level, translations]; its *)
(* translations map a language code to a translated string.  A translated  *)
(* string is written as a one-element sequence, e.g. <<"eat">>, so that it *)
(* is comparable with a surface text.  An index is the graph of the map    *)
(* dictionary form -> entry: a set of entries with pairwise distinct words.*)

Entry(w, pos, lvl, tr) == [word |-> w, partOfSpeech |-> pos, level |-> lvl, translations |-> tr]

NoTranslations == [l \in {} |-> <<>>]

\* Index.lookup: the keys of an index
Keys(idx) == {e.word : e \in idx}

\* Index.lookup: the entry stored under a key that is present
Lookup(idx, k) == CHOOSE e \in idx : e.word = k

\* buildIndex, last write wins: the entries no later entry of the same word replaces
LastWriteWins(entries) ==
    {entries[i] : i \in {j \in DOMAIN entries :
                            \A k \in DOMAIN entries : k > j => entries[k].word # entries[j].word}}

\* buildIndex: refuses (DataError, no index) when an entry has no dictionary form
buildIndex(entries) ==
    IF \E i \in DOMAIN entries : entries[i].word = <<>>
    THEN [error |-> "DataError", built |-> FALSE, entries |-> {}]
    ELSE [error |-> "none", built |-> TRUE, entries |-> LastWriteWins(entries)]

-----------------------------------------------------------------------------
(* The span matcher. *)

\* codepoints outside U+AC00..U+D7A3 that occur in the texts
NonHangul == {" ", "bJamo"}

\* KOREAN_RE = /[가-힣]/ on one codepoint
IsKorean(c) == c \notin NonHangul

\* The particle filter: the standalone particles the documentation names
PARTICLES ==
    { <<"eun">>, <<"neun">>, <<"i">>, <<"ga">>, <<"eul">>, <<"reul">>, <<"ui">>, <<"do">> }

isParticle(token) == token \in PARTICLES

\* first pass: the stem is a key and the POS constraint is respected
StrictOk(idx, c) ==
    /\ c.stem \in Keys(idx)
    /\ (~c.verbOnly \/ Lookup(idx, c.stem).partOfSpeech \in VERB_POS)

\* fallback pass: the stem is a key
LenientOk(idx, c) == c.stem \in Keys(idx)

\* candidates.find(first-pass predicate): position of the first hit, 0 if none
FirstStrict(cands, idx) ==
    LET hits == {i \in DOMAIN cands : StrictOk(idx, cands[i])}
    IN IF hits = {} THEN 0 ELSE CHOOSE i \in hits : \A j \in hits : i <= j

\* candidates.find(fallback predicate): position of the first hit, 0 if none
FirstLenient(cands, idx) ==
    LET hits == {i \in DOMAIN cands : LenientOk(idx, cands[i])}
    IN IF hits = {} THEN 0 ELSE CHOOSE i \in hits : \A j \in hits : i <= j

\* The two-pass probe of one window: [found, strict, word]; the fallback runs
\* only when the first pass found nothing (entry ??= ...)
MatchWindow(window, idx) ==
    LET cands == extractStemsForLookup(window)
        i == FirstStrict(cands, idx)
    IN IF i > 0 THEN [found |-> TRUE, strict |-> TRUE, word |-> cands[i].stem]
       ELSE LET j == FirstLenient(cands, idx)
            IN IF j > 0 THEN [found |-> TRUE, strict |-> FALSE, word |-> cands[j].stem]
               ELSE [found |-> FALSE, strict |-> FALSE, word |-> <<>>]

\* Qualifies without the particle filter
QualifiesParticlesToo(window, idx) == MatchWindow(window, idx).found

\* a window yields a span: it has a match and its surface text is no particle
Qualifies(window, idx) == ~isParticle(window) /\ MatchWindow(window, idx).found

\* the last position of the maximal Korean run that contains position p
RECURSIVE RunEnd(_, _)
RunEnd(t, p) ==
    IF p < Len(t) /\ IsKorean(t[p + 1]) THEN RunEnd(t, p + 1) ELSE p

\* LongestMatch trying the shortest window first
LongestMatchShortestFirst(t, idx, p, n) ==
    LET ok == {m \in 1..n : MatchWindow(SubSeq(t, p, p + m - 1), idx).found
                              /\ ~isParticle(SubSeq(t, p, p + m - 1))}
    IN IF ok = {} THEN 0 ELSE CHOOSE m \in ok : \A k \in ok : m <= k

\* longest windows first: the length of the first qualifying window at p, 0 if none
RECURSIVE LongestMatch(_, _, _, _)
LongestMatch(t, idx, p, n) ==
    IF n = 0 THEN 0
    ELSE IF Qualifies(SubSeq(t, p, p + n - 1), idx) THEN n
    ELSE LongestMatch(t, idx, p, n - 1)

\* ResolveTranslation without the English fallback
ResolveTranslationNoEnglish(entry, lang, surface) ==
    IF lang \in DOMAIN entry.translations THEN entry.translations[lang] ELSE surface

\* translationText: target language, else English, else the surface text
ResolveTranslation(entry, lang, surface) ==
    IF lang \in DOMAIN entry.translations THEN entry.translations[lang]
    ELSE IF "en" \in DOMAIN entry.translations THEN entry.translations["en"]
    ELSE surface

\* the span of the window of length n at position p (offsets are 0-based, half-open)
MakeSpan(t, idx, lang, p, n) ==
    LET surface == SubSeq(t, p, p + n - 1)
        entry == Lookup(idx, MatchWindow(surface, idx).word)
    IN [startOffset |-> p - 1, endOffset |-> p - 1 + n, surfaceText |-> surface,
        entry |-> entry, translationText |-> ResolveTranslation(entry, lang, surface)]

\* Scan that moves one codepoint on after a match instead of past the window
RECURSIVE ScanStepByOne(_, _, _, _, _)
ScanStepByOne(t, idx, lang, p, spans) ==
    IF p > Len(t) THEN spans
    ELSE IF ~IsKorean(t[p]) THEN ScanStepByOne(t, idx, lang, p + 1, spans)
    ELSE LET n == LongestMatch(t, idx, p, RunEnd(t, p) - p + 1)
         IN ScanStepByOne(t, idx, lang, p + 1,
                          IF n = 0 THEN spans ELSE Append(spans, MakeSpan(t, idx, lang, p, n)))

\* the scan: position p is 1-based, spans is what has been emitted so far
RECURSIVE Scan(_, _, _, _, _)
Scan(t, idx, lang, p, spans) ==
    IF p > Len(t) THEN spans
    ELSE IF ~IsKorean(t[p]) THEN Scan(t, idx, lang, p + 1, spans)
    ELSE LET n == LongestMatch(t, idx, p, RunEnd(t, p) - p + 1)
         IN IF n = 0 THEN Scan(t, idx, lang, p + 1, spans)
            ELSE Scan(t, idx, lang, p + n, Append(spans, MakeSpan(t, idx, lang, p, n)))

Languages == {"en", "zh", "ja"}
Levels == {"I", "II", "ALL"}

\* ValidConfig that checks the level only
ValidConfigLevelOnly(cfg) == cfg.level \in Levels

ValidConfig(cfg) == cfg.targetLanguage \in Languages /\ cfg.level \in Levels

\* annotate(text, index, config)
annotate(t, idx, cfg) ==
    IF ~ValidConfig(cfg) THEN [error |-> "ConfigurationError", spans |-> <<>>]
    ELSE [error |-> "none", spans |-> Scan(t, idx, cfg.targetLanguage, 1, <<>>)]

-----------------------------------------------------------------------------
(* Bounds and input sets. *)

MaxPrefixLen == 2
MaxTextLen == 3

\* all sequences over `alphabet` of length at most n
RECURSIVE SeqsUpTo(_, _)
SeqsUpTo(alphabet, n) ==
    IF n = 0 THEN {<<>>}
    ELSE LET shorter == SeqsUpTo(alphabet, n - 1)
         IN shorter \cup {Append(s, c) : s \in shorter, c \in alphabet}

\* tokens: a short prefix followed by nothing, by "다" or by an ending of either table
PrefixAlphabet == {"gong", "bu", "ha", "hae", "haess", "da", "seo"}

TableSuffixes ==
    {HA_IRREGULAR_ENDINGS[i][1] : i \in DOMAIN HA_IRREGULAR_ENDINGS}
        \cup {VERB_ENDINGS[i] : i \in DOMAIN VERB_ENDINGS}

Tokens == {p \o s : p \in SeqsUpTo(PrefixAlphabet, MaxPrefixLen), s \in TableSuffixes \cup {<<>>, da}}

\* the vocabulary pool
seoNoun == Entry(<<"seo">>, "noun", "I", [l \in {"en", "zh"} |-> IF l = "en" THEN <<"west">> ELSE <<"xi">>])
seodaVerb == Entry(<<"seo", "da">>, "verb", "I", [l \in {"en"} |-> <<"stand">>])
gaNoun == Entry(<<"ga">>, "noun", "II", NoTranslations)
gadaVerb == Entry(<<"ga", "da">>, "verb", "I", [l \in {"zh"} |-> <<"qu">>])
neunParticle == Entry(<<"neun">>, "particle", "I", [l \in {"en"} |-> <<"topic">>])
meokdaVerb == Entry(<<"meok", "da">>, "verb", "I", [l \in {"en"} |-> <<"eat">>])

Pool == <<seoNoun, seodaVerb, gaNoun, gadaVerb, neunParticle>>

\* the entries of Pool at the positions in `chosen`, in Pool order
RECURSIVE PickFrom(_, _)
PickFrom(chosen, i) ==
    IF i > Len(Pool) THEN <<>>
    ELSE (IF i \in chosen THEN <<Pool[i]>> ELSE <<>>) \o PickFrom(chosen, i + 1)

RawEntryLists ==
    {PickFrom(chosen, 1) : chosen \in SUBSET DOMAIN Pool}
        \cup { <<meokdaVerb>>,
               \* a duplicated dictionary form
               <<seoNoun, Entry(<<"seo">>, "verb", "II", NoTranslations)>>,
               \* an entry with no dictionary form
               <<seodaVerb, Entry(<<>>, "noun", "I", NoTranslations)>> }

TextAlphabet == {"seo", "go", "da", "neun", " "}

ExampleTexts ==
    { <<"bap", "eul", " ", "meok", "eoss", "eo", "yo">>,
      <<"gan", "da">>, <<"ga", "da">>, <<"ga", "go">>, <<"ga">>,
      <<"seo", "go", " ", "ga", "go">> }

Texts == SeqsUpTo(TextAlphabet, MaxTextLen) \cup ExampleTexts

Configs ==
    { [targetLanguage |-> "en", level |-> "I"],
      [targetLanguage |-> "zh", level |-> "ALL"],
      [targetLanguage |-> "ja", level |-> "II"],
      [targetLanguage |-> "ko", level |-> "I"],
      [targetLanguage |-> "en", level |-> "III"] }

NoIndex == [error |-> "none", built |-> FALSE, entries |-> {}]
NoOutcome == [error |-> "none", spans |-> <<>>]
NoConfig == [targetLanguage |-> "en", level |-> "I"]

StemIdle == word = <<>> /\ candidates = <<>> /\ stemPc = "idle" /\ sighted = <<>>
AnnIdle ==
    /\ rawEntries = <<>> /\ index = NoIndex /\ text = <<>>
    /\ config = NoConfig /\ outcome = NoOutcome /\ annPc = "idle"
CsIdle ==
    /\ stored = NoConfig /\ annotator = NoConfig /\ observing = FALSE
    /\ styleEm = 0 /\ timers = <<>> /\ changes = 0
MainIdle ==
    /\ body = <<>> /\ mainPc = "idle" /\ sentinel = "none" /\ initCount = 0
    /\ koreanSeen = FALSE /\ lastBatch = <<>> /\ delivered = 0
NoForms == [threw |-> FALSE, list |-> <<>>]
ConjIdle ==
    /\ dictionaryForm = <<>> /\ forms = NoForms /\ recognised = <<>> /\ conjPc = "idle"

-----------------------------------------------------------------------------
(* The normaliser applied to a token. *)

StemInit ==
    word \in Tokens /\ candidates = <<>> /\ stemPc = "call" /\ sighted = <<>> /\ AnnIdle /\ CsIdle /\ MainIdle /\ ConjIdle

ExtractStems ==
    /\ stemPc = "call"
    /\ candidates' = extractStemsForLookup(word)
    /\ stemPc' = "done"
    /\ UNCHANGED <<word, sighted, annVars, csVars, mainVars, conjVars>>

StemNext == ExtractStems

SpecStems == StemInit /\ [][StemNext]_vars

(* The closure `add` on its own: a fresh Map, then calls with arbitrary    *)
(* stems and flags in arbitrary order.                                     *)
MaxSightings == 4
AddStems == {<<"ha">>, <<"ha", "da">>, <<"seo">>}

AddInit ==
    /\ word = <<>> /\ candidates = <<>> /\ stemPc = "add" /\ sighted = <<>>
    /\ AnnIdle /\ CsIdle /\ MainIdle /\ ConjIdle

AddCall ==
    /\ stemPc = "add"
    /\ Len(sighted) < MaxSightings
    /\ \E stem \in AddStems, verbOnly \in BOOLEAN :
          /\ candidates' = add(candidates, stem, verbOnly)
          /\ sighted' = Append(sighted, [stem |-> stem, verbOnly |-> verbOnly])
    /\ UNCHANGED <<word, stemPc, annVars, csVars, mainVars, conjVars>>

AddNext == AddCall

SpecAdd == AddInit /\ [][AddNext]_vars

-----------------------------------------------------------------------------
(* The matcher applied to a vocabulary, a text and a config. *)

AnnInit ==
    /\ rawEntries \in RawEntryLists
    /\ index = NoIndex /\ text = <<>> /\ config = NoConfig /\ outcome = NoOutcome
    /\ annPc = "build"
    /\ StemIdle /\ CsIdle /\ MainIdle /\ ConjIdle

BuildIndex ==
    /\ annPc = "build"
    /\ index' = buildIndex(rawEntries)
    /\ annPc' = IF index'.built THEN "ready" ELSE "refused"
    /\ UNCHANGED <<rawEntries, text, config, outcome, stemVars, csVars, mainVars, conjVars>>

Annotate ==
    /\ annPc = "ready"
    /\ \E t \in Texts, cfg \in Configs :
          /\ text' = t
          /\ config' = cfg
          /\ outcome' = annotate(t, index.entries, cfg)
    /\ annPc' = "done"
    /\ UNCHANGED <<rawEntries, index, stemVars, csVars, mainVars, conjVars>>

AnnNext == BuildIndex \/ Annotate

SpecAnnotate == AnnInit /\ [][AnnNext]_vars

-----------------------------------------------------------------------------
(* The content script after initializeFull: the storage-change listener    *)
(* and the timers it schedules.  Every setTimeout has the same delay, so   *)
(* pending callbacks fire in the order they were scheduled.  The passes    *)
(* the DOMObserver starts by itself on page mutations are outside this     *)
(* script and are not part of the model.                                   *)

MaxChanges == 2

\* const baseFontSize = 0.6 (em), in 1/1000 em
BaseFontSizeMilliEm == 600

\* fontSizeEm = (baseFontSize * fontSize) / 100, in 1/1000 em
FontSizeEm(fontSize) == (BaseFontSizeMilliEm * fontSize) \div 100

\* the values a stored UserConfig takes
UserConfigs ==
    [enabled : BOOLEAN, level : {"I", "II"}, targetLanguage : {"en", "zh"},
     showHighlight : BOOLEAN, fontSize : {100, 120}]

\* annotator.processNode(document.body): the page is annotated with the
\* vocabulary and the config the annotator holds
processNode(a) ==
    [a EXCEPT !.annotated = TRUE,
              !.lastPass = [ran |-> TRUE, vocabLevel |-> a.vocabLevel, configLevel |-> a.config.level]]

\* the state initializeFull leaves for the config found in storage
InitializeFull(cfg) ==
    LET created == [config |-> cfg, vocabLevel |-> cfg.level, updating |-> FALSE,
                    annotated |-> FALSE,
                    lastPass |-> [ran |-> FALSE, vocabLevel |-> cfg.level, configLevel |-> cfg.level]]
    IN /\ stored = cfg
       /\ annotator = (IF cfg.enabled THEN processNode(created) ELSE created)
       /\ styleEm = FontSizeEm(cfg.fontSize)
       /\ observing = cfg.enabled
       /\ timers = <<>>
       /\ changes = 0

CsInit == (\E cfg \in UserConfigs : InitializeFull(cfg)) /\ StemIdle /\ AnnIdle /\ MainIdle /\ ConjIdle

\* updateFontSize: rewrites the font-size of the existing style element
updateFontSize(fontSize) == styleEm' = FontSizeEm(fontSize)

\* listener, enabled changed to true: stop, and re-annotate from a timer
OnEnable(oldConfig, newConfig) ==
    /\ newConfig.enabled # oldConfig.enabled /\ newConfig.enabled
    /\ annotator' = [annotator EXCEPT !.updating = TRUE]
    /\ observing' = FALSE
    /\ timers' = Append(timers, [kind |-> "enable", newConfig |-> newConfig, oldConfig |-> oldConfig])
    /\ UNCHANGED styleEm

\* listener, enabled changed to false: clear annotations and stop observing
OnDisable(oldConfig, newConfig) ==
    /\ newConfig.enabled # oldConfig.enabled /\ ~newConfig.enabled
    /\ annotator' = [annotator EXCEPT !.config = newConfig, !.annotated = FALSE, !.updating = FALSE]
    /\ observing' = FALSE
    /\ UNCHANGED <<timers, styleEm>>

\* fontSize changed alone
FontSizeOnly(oldConfig, newConfig) ==
    /\ newConfig.fontSize # oldConfig.fontSize
    /\ newConfig.level = oldConfig.level
    /\ newConfig.targetLanguage = oldConfig.targetLanguage
    /\ newConfig.showHighlight = oldConfig.showHighlight

\* level, language or highlight changed
NeedsReannotation(oldConfig, newConfig) ==
    \/ newConfig.level # oldConfig.level
    \/ newConfig.targetLanguage # oldConfig.targetLanguage
    \/ newConfig.showHighlight # oldConfig.showHighlight

\* OnFontSize that also takes the re-annotation path
OnFontSizeReannotates(oldConfig, newConfig) ==
    /\ newConfig.enabled = oldConfig.enabled /\ newConfig.enabled
    /\ FontSizeOnly(oldConfig, newConfig)
    /\ updateFontSize(newConfig.fontSize)
    /\ annotator' = [annotator EXCEPT !.updating = TRUE]
    /\ observing' = FALSE
    /\ timers' = Append(timers, [kind |-> "reannotate", newConfig |-> newConfig, oldConfig |-> oldConfig])

\* listener, still enabled, fontSize changed alone: only the style is updated
OnFontSize(oldConfig, newConfig) ==
    /\ newConfig.enabled = oldConfig.enabled /\ newConfig.enabled
    /\ FontSizeOnly(oldConfig, newConfig)
    /\ updateFontSize(newConfig.fontSize)
    /\ UNCHANGED <<annotator, observing, timers>>

\* listener, still enabled, level / language / highlight changed: re-annotate from timers
OnReannotate(oldConfig, newConfig) ==
    /\ newConfig.enabled = oldConfig.enabled /\ newConfig.enabled
    /\ ~FontSizeOnly(oldConfig, newConfig)
    /\ NeedsReannotation(oldConfig, newConfig)
    /\ annotator' = [annotator EXCEPT !.updating = TRUE]
    /\ observing' = FALSE
    /\ timers' = Append(timers, [kind |-> "reannotate", newConfig |-> newConfig, oldConfig |-> oldConfig])
    /\ UNCHANGED styleEm

\* listener, disabled before and after: no branch is taken
OnWhileDisabled(oldConfig, newConfig) ==
    /\ newConfig.enabled = oldConfig.enabled /\ ~newConfig.enabled
    /\ UNCHANGED <<annotator, observing, timers, styleEm>>

\* chrome.storage.onChanged for the config key in area 'sync'
StorageChanged ==
    /\ changes < MaxChanges
    /\ \E newConfig \in UserConfigs \ {stored} :
          /\ \/ OnEnable(stored, newConfig)
             \/ OnDisable(stored, newConfig)
             \/ OnFontSize(stored, newConfig)
             \/ OnReannotate(stored, newConfig)
             \/ OnWhileDisabled(stored, newConfig)
          /\ stored' = newConfig
    /\ changes' = changes + 1
    /\ UNCHANGED <<stemVars, annVars, mainVars, conjVars>>

\* the timer of the enable branch fires
TimerEnable ==
    /\ timers # <<>> /\ Head(timers).kind = "enable"
    /\ annotator' = processNode([annotator EXCEPT !.config = Head(timers).newConfig,
                                                  !.annotated = FALSE,
                                                  !.updating = FALSE])
    /\ observing' = TRUE
    /\ timers' = Tail(timers)
    /\ UNCHANGED <<stored, styleEm, changes, stemVars, annVars, mainVars, conjVars>>

\* the outer timer of the re-annotate branch fires
TimerReannotate ==
    /\ timers # <<>> /\ Head(timers).kind = "reannotate"
    /\ LET t == Head(timers)
           reloaded == IF t.newConfig.level # t.oldConfig.level
                       THEN [annotator EXCEPT !.vocabLevel = t.newConfig.level]
                       ELSE annotator
       IN annotator' = [reloaded EXCEPT !.config = t.newConfig, !.annotated = FALSE]
    /\ timers' = Append(Tail(timers), [kind |-> "resume", newConfig |-> Head(timers).newConfig,
                                       oldConfig |-> Head(timers).oldConfig])
    /\ UNCHANGED <<stored, observing, styleEm, changes, stemVars, annVars, mainVars, conjVars>>

\* the inner timer of the re-annotate branch fires
TimerResume ==
    /\ timers # <<>> /\ Head(timers).kind = "resume"
    /\ annotator' = processNode([annotator EXCEPT !.updating = FALSE])
    /\ observing' = TRUE
    /\ timers' = Tail(timers)
    /\ UNCHANGED <<stored, styleEm, changes, stemVars, annVars, mainVars, conjVars>>

Next == StorageChanged \/ TimerEnable \/ TimerReannotate \/ TimerResume

Spec == CsInit /\ [][Next]_vars

-----------------------------------------------------------------------------
(* The content script's main(): the Korean-presence check and the sentinel *)
(* MutationObserver that waits for Korean text to appear.                  *)

MaxBatches == 2
MaxBatchLen == 2

\* KOREAN_RE.test(text)
HasKorean(t) == \E i \in DOMAIN t : IsKorean(t[i])

\* document.body.innerText at start: empty, without Korean, with Korean
BodyTexts == { <<>>, <<" ">>, <<"seo">> }

\* text contents of mutation targets and of added nodes: without Korean, with Korean
NodeTexts == { <<" ">>, <<"seo">> }

\* a MutationRecord: its type, its target's textContent, its addedNodes' textContent joined
MutationRecords ==
    [type : {"characterData", "childList"}, targetText : NodeTexts, addedText : NodeTexts]

\* the batches a sentinel callback receives
Batches == SeqsUpTo(MutationRecords, MaxBatchLen) \ {<<>>}

\* the text the sentinel inspects for one mutation
InspectedText(mutation) ==
    IF mutation.type = "characterData" THEN mutation.targetText ELSE mutation.addedText

MainInit ==
    /\ body \in BodyTexts /\ mainPc = "start" /\ sentinel = "none" /\ initCount = 0
    /\ koreanSeen = FALSE /\ lastBatch = <<>> /\ delivered = 0
    /\ StemIdle /\ AnnIdle /\ CsIdle /\ ConjIdle

\* main(): initialise at once when the page has Korean, else start the sentinel
Main ==
    /\ mainPc = "start"
    /\ mainPc' = "ran"
    /\ koreanSeen' = HasKorean(body)
    /\ IF HasKorean(body)
       THEN initCount' = initCount + 1 /\ sentinel' = sentinel
       ELSE initCount' = initCount /\ sentinel' = "observing"
    /\ UNCHANGED <<body, lastBatch, delivered, stemVars, annVars, csVars, conjVars>>

\* SentinelCallback without obs.disconnect()
SentinelCallbackNoDisconnect(mutations) ==
    IF \E i \in DOMAIN mutations : HasKorean(InspectedText(mutations[i]))
    THEN initCount' = initCount + 1 /\ sentinel' = sentinel
    ELSE initCount' = initCount /\ sentinel' = sentinel

\* the sentinel's callback: at the first mutation with Korean text, disconnect,
\* call initializeFull and return
SentinelCallback(mutations) ==
    IF \E i \in DOMAIN mutations : HasKorean(InspectedText(mutations[i]))
    THEN initCount' = initCount + 1 /\ sentinel' = "disconnected"
    ELSE initCount' = initCount /\ sentinel' = sentinel

\* the page mutates and the sentinel, still connected, is called with the records
MutationsDelivered ==
    /\ sentinel = "observing"
    /\ delivered < MaxBatches
    /\ \E mutations \in Batches :
          /\ SentinelCallback(mutations)
          /\ lastBatch' = mutations
          /\ koreanSeen' =
                (koreanSeen \/ \E i \in DOMAIN mutations :
                                  \/ mutations[i].type = "characterData" /\ HasKorean(mutations[i].targetText)
                                  \/ mutations[i].type = "childList" /\ HasKorean(mutations[i].addedText))
    /\ delivered' = delivered + 1
    /\ UNCHANGED <<body, mainPc, stemVars, annVars, csVars, conjVars>>

MainNext == Main \/ MutationsDelivered

SpecMain == MainInit /\ [][MainNext]_vars

-----------------------------------------------------------------------------
(* Properties of the matcher (SpecAnnotate) and of the normaliser          *)
(* (SpecStems).                                                            *)

\* annotate returned a span sequence
Scanned == annPc = "done" /\ outcome.error = "none"

Spans == outcome.spans

\* the window of a span, cut out of the text again
WindowOf(s) == SubSeq(text, s.startOffset + 1, s.endOffset)

\* C1: the spans annotate returns are sorted by startOffset and pairwise
\* non-overlapping: each has startOffset < endOffset, lies inside the text, and
\* ends no later than the next one starts.
C1_SortedNonOverlapping ==
    Scanned =>
        \A i \in DOMAIN Spans :
            /\ 0 <= Spans[i].startOffset
            /\ Spans[i].startOffset < Spans[i].endOffset
            /\ Spans[i].endOffset <= Len(text)
            /\ i < Len(Spans) => Spans[i].endOffset <= Spans[i + 1].startOffset

\* a result with a multi-syllable span followed by a second span
C1_Witness ==
    /\ Scanned
    /\ Len(Spans) >= 2
    /\ Spans[1].endOffset - Spans[1].startOffset >= 2

\* C2: a span emitted at start position p covers the longest window starting at p
\* inside its Korean run that qualifies; no longer window at p qualifies.
C2_LongestMatch ==
    Scanned =>
        \A i \in DOMAIN Spans :
            LET p == Spans[i].startOffset + 1
                n == Spans[i].endOffset - Spans[i].startOffset
            IN /\ Spans[i].surfaceText = WindowOf(Spans[i])
               /\ \A k \in p..Spans[i].endOffset : IsKorean(text[k])
               /\ Qualifies(WindowOf(Spans[i]), index.entries)
               /\ \A m \in (n + 1)..(RunEnd(text, p) - p + 1) :
                      ~Qualifies(SubSeq(text, p, p + m - 1), index.entries)

\* a span of two or more syllables whose one-syllable prefix qualifies as well
C2_Witness ==
    /\ Scanned
    /\ \E i \in DOMAIN Spans :
          /\ Spans[i].endOffset - Spans[i].startOffset >= 2
          /\ Qualifies(<<text[Spans[i].startOffset + 1]>>, index.entries)

\* C3: when some candidate of a span's window has a POS-respecting match, the
\* span's entry is the entry of a POS-respecting candidate (the POS-ignoring pass
\* is used only when the strict pass found nothing); with 서 (noun) and 서다 (verb)
\* in the index, "서고" yields exactly one span and its entry is 서다.
C3_PosGuard ==
    Scanned =>
        /\ \A i \in DOMAIN Spans :
              LET cands == extractStemsForLookup(Spans[i].surfaceText)
                  strict == {k \in DOMAIN cands : StrictOk(index.entries, cands[k])}
              IN /\ Spans[i].entry \in index.entries
                 /\ \E k \in DOMAIN cands : cands[k].stem = Spans[i].entry.word
                 /\ strict # {} =>
                       \E k \in strict : cands[k].stem = Spans[i].entry.word
        /\ ({seoNoun, seodaVerb} \subseteq index.entries /\ text = <<"seo", "go">>) =>
              /\ Len(Spans) = 1
              /\ Spans[1].surfaceText = <<"seo", "go">>
              /\ Spans[1].entry = seodaVerb

\* "서고" scanned with both 서 (noun) and 서다 (verb) in the index
C3_Witness ==
    /\ Scanned
    /\ {seoNoun, seodaVerb} \subseteq index.entries
    /\ text = <<"seo", "go">>
    /\ Len(Spans) = 1

\* C4: no span has a particle as its surface text, even when the particle is a key
\* of the index; the text "는" yields zero spans.
C4_NoParticleSpan ==
    Scanned =>
        /\ \A i \in DOMAIN Spans : ~isParticle(Spans[i].surfaceText)
        /\ text = <<"neun">> => Spans = <<>>

\* "는" scanned with "는" a key of the index
C4_Witness ==
    /\ Scanned
    /\ text = <<"neun">>
    /\ <<"neun">> \in Keys(index.entries)
    /\ Spans = <<>>

\* C5: with the index {먹다: verb, en "eat"} and target language en, "밥을 먹었어요"
\* yields exactly one span: "먹었어요", translationText "eat"; nothing covers "밥을".
C5_EndToEnd ==
    ( /\ Scanned
      /\ index.entries = {meokdaVerb}
      /\ config.targetLanguage = "en"
      /\ text = <<"bap", "eul", " ", "meok", "eoss", "eo", "yo">> ) =>
        Spans = << [startOffset |-> 3, endOffset |-> 7,
                    surfaceText |-> <<"meok", "eoss", "eo", "yo">>,
                    entry |-> meokdaVerb,
                    translationText |-> <<"eat">>] >>

\* the end-to-end example has been scanned
C5_Witness ==
    /\ Scanned
    /\ index.entries = {meokdaVerb}
    /\ config.targetLanguage = "en"
    /\ text = <<"bap", "eul", " ", "meok", "eoss", "eo", "yo">>
    /\ Len(Spans) = 1

\* an index with every translation removed
StripTranslations(idx) ==
    {Entry(e.word, e.partOfSpeech, e.level, NoTranslations) : e \in idx}

\* offsets and matched dictionary forms of a span sequence
Skeleton(spans) ==
    [i \in DOMAIN spans |-> <<spans[i].startOffset, spans[i].endOffset, spans[i].entry.word>>]

\* C6: translationText is the entry's translation for the target language when
\* present, otherwise its English translation when present, otherwise the surface
\* text; offsets and entries of the spans are those obtained from the same
\* vocabulary carrying no translations at all.
C6_TranslationFallback ==
    Scanned =>
        /\ \A i \in DOMAIN Spans :
              LET tr == Spans[i].entry.translations
              IN /\ config.targetLanguage \in DOMAIN tr =>
                       Spans[i].translationText = tr[config.targetLanguage]
                 /\ (config.targetLanguage \notin DOMAIN tr /\ "en" \in DOMAIN tr) =>
                       Spans[i].translationText = tr["en"]
                 /\ (config.targetLanguage \notin DOMAIN tr /\ "en" \notin DOMAIN tr) =>
                       Spans[i].translationText = Spans[i].surfaceText
        /\ Skeleton(Spans) =
              Skeleton(Scan(text, StripTranslations(index.entries), config.targetLanguage, 1, <<>>))

\* one result that uses the English fallback and the surface-text fallback
C6_Witness ==
    /\ Scanned
    /\ \E i \in DOMAIN Spans :
          /\ config.targetLanguage \notin DOMAIN Spans[i].entry.translations
          /\ "en" \in DOMAIN Spans[i].entry.translations
    /\ \E i \in DOMAIN Spans :
          /\ config.targetLanguage \notin DOMAIN Spans[i].entry.translations
          /\ "en" \notin DOMAIN Spans[i].entry.translations

\* C7: for a token X + s with s a suffix of the 하다 contraction table (X possibly
\* empty), the candidates contain X하 and X하다, both with verbOnly = TRUE.
C7_HaIrregular ==
    stemPc = "done" =>
        \A k \in DOMAIN HA_IRREGULAR_ENDINGS :
            LET s == HA_IRREGULAR_ENDINGS[k][1]
                stem == DropLast(word, Len(s)) \o <<"ha">>
            IN EndsWith(word, s) =>
                  /\ \E i \in DOMAIN candidates :
                        candidates[i] = [stem |-> stem, verbOnly |-> TRUE]
                  /\ \E i \in DOMAIN candidates :
                        candidates[i] = [stem |-> stem \o da, verbOnly |-> TRUE]

\* "공부해요" has been normalised and 공부하다 is among its candidates
C7_Witness ==
    /\ stemPc = "done"
    /\ word = <<"gong", "bu", "hae", "yo">>
    /\ \E i \in DOMAIN candidates : candidates[i].stem = <<"gong", "bu", "ha", "da">>

\* C8: annotate with an unrecognised targetLanguage or level reports a
\* ConfigurationError and returns no spans; buildIndex given an entry with no
\* dictionary form reports a DataError and returns no index; otherwise the
\* operation succeeds without error.
C8_ErrorKinds ==
    LET malformed == \E i \in DOMAIN rawEntries : rawEntries[i].word = <<>>
    IN /\ annPc = "refused" =>
             malformed /\ index = [error |-> "DataError", built |-> FALSE, entries |-> {}]
       /\ annPc \in {"ready", "done"} =>
             ~malformed /\ index.error = "none" /\ index.built
       /\ annPc = "done" =>
             IF config.targetLanguage \in Languages /\ config.level \in Levels
             THEN outcome.error = "none"
             ELSE outcome = [error |-> "ConfigurationError", spans |-> <<>>]

\* annotate refused an unrecognised language although the text has a match
C8_Witness ==
    /\ annPc = "done"
    /\ config.targetLanguage \notin Languages
    /\ outcome.error = "ConfigurationError"
    /\ Scan(text, index.entries, "en", 1, <<>>) # <<>>

-----------------------------------------------------------------------------
(* Properties of the content script (Spec). *)

\* C9: every annotation pass runs with a vocabulary that was loaded for the level
\* of the config the annotator holds at that pass.
C9_VocabularyMatchesLevel ==
    annotator.lastPass.ran => annotator.lastPass.vocabLevel = annotator.lastPass.configLevel

\* C10: once the change handler and the timers it scheduled have run, the font
\* size in the injected style corresponds to the fontSize of the most recent config.
C10_FontSizeFollowsConfig ==
    timers = <<>> => styleEm = FontSizeEm(stored.fontSize)

-----------------------------------------------------------------------------
(* Properties of main() and the sentinel (SpecMain). *)

\* C11: initializeFull runs at most once per page and never before Korean text
\* has been seen (in the body at script start, or in the added nodes or changed
\* character data of a delivered mutation); once it has run, the sentinel is not
\* observing, and before main() has run nothing is initialised.
C11_InitializeOnce ==
    /\ initCount <= 1
    /\ initCount = 1 => koreanSeen /\ sentinel # "observing"
    /\ mainPc = "start" => initCount = 0 /\ sentinel = "none"

\* initialisation was triggered by the sentinel, by a batch with two Korean records, on a page that had no Korean at start
C11_Witness ==
    /\ initCount = 1
    /\ ~HasKorean(body)
    /\ sentinel = "disconnected"
    /\ delivered = MaxBatches
    /\ \E i, j \in DOMAIN lastBatch :
          i < j /\ HasKorean(InspectedText(lastBatch[i])) /\ HasKorean(InspectedText(lastBatch[j]))

-----------------------------------------------------------------------------
(* Further properties of the normaliser (SpecStems). *)

\* the positions of the regular endings the word ends with and is longer than
StrippableEndings(w) ==
    {k \in DOMAIN VERB_ENDINGS_LITERAL :
        EndsWith(w, VERB_ENDINGS_LITERAL[k]) /\ Len(w) > Len(VERB_ENDINGS_LITERAL[k])}

\* C12: for every token t and every ending e of the regular table with t = s + e
\* and s non-empty (every matching ending, not only the longest), the candidates
\* contain s and, unless s ends in "다", s + "다"; their verbOnly flag is TRUE
\* exactly when e is a verb-only ending, or e is "는" or "은" and s is one syllable.
C12_RegularEndings ==
    stemPc = "done" =>
        \A k \in StrippableEndings(word) :
            LET e == VERB_ENDINGS_LITERAL[k]
                s == DropLast(word, Len(e))
                flag == \/ e \in VERB_ONLY_ENDINGS
                        \/ e \in {<<"neun">>, <<"eun">>} /\ Len(s) = 1
            IN /\ \E i \in DOMAIN candidates : candidates[i] = [stem |-> s, verbOnly |-> flag]
               /\ ~EndsWith(s, da) =>
                     \E i \in DOMAIN candidates : candidates[i] = [stem |-> s \o da, verbOnly |-> flag]

\* "공었어요": both 었어요 and the shorter 어요 are stripped
C12_Witness ==
    /\ stemPc = "done"
    /\ word = <<"gong", "eoss", "eo", "yo">>
    /\ \E i \in DOMAIN candidates : candidates[i] = [stem |-> <<"gong">>, verbOnly |-> TRUE]
    /\ \E i \in DOMAIN candidates : candidates[i] = [stem |-> <<"gong", "eoss">>, verbOnly |-> TRUE]

\* C14: the first candidate is the token itself with verbOnly = FALSE; for the
\* empty token it is the only candidate.
C14_IdentityFirst ==
    stemPc = "done" =>
        /\ Len(candidates) >= 1
        /\ candidates[1] = [stem |-> word, verbOnly |-> FALSE]
        /\ word = <<>> => Len(candidates) = 1

\* a dictionary form, whose bare stem is recorded after the identity candidate
C14_Witness ==
    /\ stemPc = "done"
    /\ EndsWith(word, da)
    /\ Len(candidates) >= 2
    /\ candidates[1].stem = word
    /\ candidates[2].stem = DropLast(word, 1)

\* every (stem, verbOnly) pair some rule of extractStemsForLookup derives for w
Sightings(w) ==
    {[stem |-> w, verbOnly |-> FALSE]}
    \cup (IF EndsWith(w, da) THEN {[stem |-> DropLast(w, 1), verbOnly |-> FALSE]} ELSE {})
    \cup UNION { LET stem == DropLast(w, Len(HA_IRREGULAR_ENDINGS[k][1])) \o HA_IRREGULAR_ENDINGS[k][2]
                 IN {[stem |-> stem, verbOnly |-> TRUE], [stem |-> stem \o da, verbOnly |-> TRUE]}
               : k \in {j \in DOMAIN HA_IRREGULAR_ENDINGS : EndsWith(w, HA_IRREGULAR_ENDINGS[j][1])} }
    \cup UNION { LET e == VERB_ENDINGS_LITERAL[k]
                     stem == DropLast(w, Len(e))
                     flag == e \in VERB_ONLY_ENDINGS \/ (e \in AMBIGUOUS_ENDINGS /\ Len(stem) = 1)
                 IN {[stem |-> stem, verbOnly |-> flag]}
                       \cup (IF EndsWith(stem, da) THEN {} ELSE {[stem |-> stem \o da, verbOnly |-> flag]})
               : k \in StrippableEndings(w) }

NoDuplicateStems(cands) ==
    \A i, j \in DOMAIN cands : cands[i].stem = cands[j].stem => i = j

(* C13: the candidates hold no stem twice, and a candidate is verbOnly     *)
(* exactly when every derivation of its stem was verbOnly, so a stem seen  *)
(* both ways, in either order, comes out unconstrained.  Stated for `add`  *)
(* under arbitrary call sequences, and for the result of                   *)
(* extractStemsForLookup on every token against the derivations its rules  *)
(* make.                                                                   *)
C13_NoDuplicateStems ==
    /\ stemPc = "add" =>
          /\ NoDuplicateStems(candidates)
          /\ {candidates[i].stem : i \in DOMAIN candidates} = {sighted[k].stem : k \in DOMAIN sighted}
          /\ \A i \in DOMAIN candidates :
                candidates[i].verbOnly =
                    (\A k \in DOMAIN sighted :
                        sighted[k].stem = candidates[i].stem => sighted[k].verbOnly)
    /\ stemPc = "add" /\ sighted = <<>> =>
          \A w \in Tokens :
              LET r == EndingLoop(HaLoop(IdentityAndBare(w), w, MatchingHa(w)), w, MatchingEndings(w))
              IN /\ NoDuplicateStems(r)
                 /\ {r[i].stem : i \in DOMAIN r} = {x.stem : x \in Sightings(w)}
                 /\ \A i \in DOMAIN r :
                       r[i].verbOnly = (\A x \in Sightings(w) : x.stem = r[i].stem => x.verbOnly)

\* a stem sighted constrained then unconstrained, and one sighted unconstrained then constrained
C13_Witness ==
    /\ stemPc = "add"
    /\ \E a, b, c, d \in DOMAIN sighted :
          /\ a < b /\ sighted[a].stem = sighted[b].stem /\ sighted[a].verbOnly /\ ~sighted[b].verbOnly
          /\ c < d /\ sighted[c].stem = sighted[d].stem /\ ~sighted[c].verbOnly /\ sighted[d].verbOnly
    /\ \A i \in DOMAIN candidates : ~candidates[i].verbOnly

\* the stems the rules derive for w when the irregular table is used at positions haKs
DerivableStems(w, haKs) ==
    {w}
    \cup (IF EndsWith(w, da) THEN {DropLast(w, 1)} ELSE {})
    \cup UNION { LET stem == DropLast(w, Len(HA_IRREGULAR_ENDINGS[k][1])) \o HA_IRREGULAR_ENDINGS[k][2]
                 IN {stem, stem \o da} : k \in haKs }
    \cup UNION { LET stem == DropLast(w, Len(VERB_ENDINGS_LITERAL[k]))
                 IN {stem, stem \o da} : k \in StrippableEndings(w) }

\* positions of the irregular suffixes the word ends with and is strictly longer than
HaSuffixesShorterThan(w) ==
    {k \in DOMAIN HA_IRREGULAR_ENDINGS :
        EndsWith(w, HA_IRREGULAR_ENDINGS[k][1]) /\ Len(w) > Len(HA_IRREGULAR_ENDINGS[k][1])}

\* positions of the irregular suffixes the word ends with, the whole word included
HaSuffixesOf(w) ==
    {k \in DOMAIN HA_IRREGULAR_ENDINGS : EndsWith(w, HA_IRREGULAR_ENDINGS[k][1])}

(* C15 as stated: no candidate comes from removing an ending, regular or   *)
(* irregular, that is as long as the token; every candidate stem is the    *)
(* token, its bare stem, or what remains after an ending strictly shorter  *)
(* than the token.                                                         *)
C15_NoWholeTokenEnding ==
    stemPc = "done" =>
        \A i \in DOMAIN candidates : candidates[i].stem \in DerivableStems(word, HaSuffixesShorterThan(word))

(* C15 amended: a regular ending is removed only from a strictly longer    *)
(* token; an irregular suffix is also replaced when it is the whole token, *)
(* which then yields the base and the base + "다", both verbOnly.           *)
C15_WholeTokenOnlyIrregular ==
    stemPc = "done" =>
        /\ \A i \in DOMAIN candidates : candidates[i].stem \in DerivableStems(word, HaSuffixesOf(word))
        /\ \A k \in DOMAIN HA_IRREGULAR_ENDINGS :
              word = HA_IRREGULAR_ENDINGS[k][1] =>
                  /\ \E i \in DOMAIN candidates :
                        candidates[i] = [stem |-> HA_IRREGULAR_ENDINGS[k][2], verbOnly |-> TRUE]
                  /\ \E i \in DOMAIN candidates :
                        candidates[i] = [stem |-> HA_IRREGULAR_ENDINGS[k][2] \o da, verbOnly |-> TRUE]
        /\ \A k \in DOMAIN VERB_ENDINGS_LITERAL :
              word = VERB_ENDINGS_LITERAL[k] /\ HaSuffixesOf(word) = {} /\ word # da =>
                  \A i \in DOMAIN candidates : candidates[i].stem # <<>>

\* the token is exactly the irregular suffix 해요 and came back with 하 and 하다
C15_Witness ==
    /\ stemPc = "done"
    /\ word = <<"hae", "yo">>
    /\ \E i \in DOMAIN candidates : candidates[i].stem = <<"ha">>
    /\ \E i \in DOMAIN candidates : candidates[i].stem = <<"ha", "da">>

------------------------------------------------------------------------------
(* Further properties of the content script (Spec). *)

(* C16: a storage change that leaves the extension enabled and alters      *)
(* fontSize only rewrites the font size of the injected style and nothing  *)
(* else: the observer keeps its state, the annotator (updating flag,       *)
(* annotations, vocabulary, last pass) is untouched and no timer is        *)
(* scheduled.                                                              *)
C16_FontSizeOnlyFrame ==
    [][ ( /\ changes' = changes + 1
          /\ stored.enabled /\ stored'.enabled
          /\ stored'.fontSize # stored.fontSize
          /\ stored'.level = stored.level
          /\ stored'.targetLanguage = stored.targetLanguage
          /\ stored'.showHighlight = stored.showHighlight )
        => ( /\ styleEm' = FontSizeEm(stored'.fontSize)
             /\ observing' = observing
             /\ annotator' = annotator
             /\ timers' = timers ) ]_vars

\* right after the first change, which altered fontSize alone on an annotated page
C16_Witness ==
    /\ changes = 1
    /\ stored.enabled /\ annotator.config.enabled
    /\ stored.fontSize # annotator.config.fontSize
    /\ stored.level = annotator.config.level
    /\ stored.targetLanguage = annotator.config.targetLanguage
    /\ stored.showHighlight = annotator.config.showHighlight
    /\ styleEm = FontSizeEm(stored.fontSize)
    /\ observing /\ annotator.annotated /\ ~annotator.updating /\ timers = <<>>

(* C17: once every pending timer has fired, the DOM observer runs and the  *)
(* page carries annotations only if the config stored last has enabled =   *)
(* TRUE.                                                                   *)
C17_QuiescentFollowsEnabled ==
    timers = <<>> => ((observing \/ annotator.annotated) => stored.enabled)

(* C18: a timer callback that clears the annotations (and reloads the      *)
(* vocabulary) runs only while the DOM observer is stopped and the         *)
(* annotator's updating flag is set.                                       *)
C18_ClearOnlyWhileUpdating ==
    [][ ( /\ timers # <<>>
          /\ Head(timers).kind \in {"enable", "reannotate"}
          /\ changes' = changes
          /\ timers' # timers )
        => (annotator.updating /\ ~observing) ]_vars

------------------------------------------------------------------------------
(* C19: for a non-empty token every candidate has a non-empty stem.        *)
C19_NonEmptyStems ==
    stemPc = "done" /\ word # <<>> =>
        \A i \in DOMAIN candidates : candidates[i].stem # <<>>

RECURSIVE Reverse(_)
Reverse(seq) == IF seq = <<>> THEN <<>> ELSE Append(Reverse(Tail(seq)), Head(seq))

(* C20: no suffix of the irregular table is a suffix of another, so at     *)
(* most one entry matches a token and the irregular step adds at most the  *)
(* two candidates X하 and X하다; visiting the table in the opposite order   *)
(* gives the same result; the table is ordered by non-increasing suffix    *)
(* length.                                                                 *)
C20_OneIrregularMatch ==
    /\ \A j, k \in DOMAIN HA_IRREGULAR_ENDINGS :
          j # k => ~EndsWith(HA_IRREGULAR_ENDINGS[j][1], HA_IRREGULAR_ENDINGS[k][1])
    /\ \A j, k \in DOMAIN HA_IRREGULAR_ENDINGS :
          j < k => Len(HA_IRREGULAR_ENDINGS[j][1]) >= Len(HA_IRREGULAR_ENDINGS[k][1])
    /\ stemPc = "done" =>
          LET matching == SelectSeq(HA_IRREGULAR_ENDINGS,
                                    LAMBDA pair : EndsWith(word, pair[1]) /\ Len(word) >= Len(pair[1]))
              contributed == HaLoop(<<>>, word, matching)
          IN /\ Len(matching) <= 1
             /\ Len(contributed) <= 2
             /\ matching # <<>> =>
                   LET X == DropLast(word, Len(matching[1][1]))
                   IN contributed = << [stem |-> X \o <<"ha">>, verbOnly |-> TRUE],
                                       [stem |-> X \o <<"ha", "da">>, verbOnly |-> TRUE] >>
             /\ candidates = EndingLoop(HaLoop(IdentityAndBare(word), word, Reverse(matching)),
                                        word, MatchingEndings(word))

\* 공부했어요 ends with 했어요 (and with the regular 어요); the irregular step gave 공부하, 공부하다
C20_Witness ==
    /\ stemPc = "done"
    /\ word = <<"gong", "bu", "haess", "eo", "yo">>
    /\ \E i \in DOMAIN candidates : candidates[i] = [stem |-> <<"gong", "bu", "ha">>, verbOnly |-> TRUE]
    /\ \E i \in DOMAIN candidates : candidates[i] = [stem |-> <<"gong", "bu", "ha", "da">>, verbOnly |-> TRUE]
    /\ \E i \in DOMAIN candidates : candidates[i].stem = <<"gong", "bu", "haess">>

------------------------------------------------------------------------------
(* Generation and recognition of conjugated forms. *)

\* String.prototype.charCodeAt(0) for the codepoints that end a stem here
charCodeAt(char) ==
    CASE char = "ga" -> 44032      \* U+AC00
      [] char = "da" -> 45796      \* U+B2E4
      [] char = "meok" -> 47673    \* U+BA39
      [] char = "seo" -> 49436     \* U+C11C
      [] char = "o" -> 50724       \* U+C624
      [] char = "bJamo" -> 12610   \* U+3142

\* no final consonant: the syllable ends with a vowel
hasLastVowel(char) ==
    LET code == charCodeAt(char) - 44032
    IN IF code < 0 \/ code > 11171 THEN FALSE ELSE code % 28 = 0

\* the 21 medial vowels, in the order of the syllable block encoding
vowels ==
    << "a", "ae", "ya", "yae", "eo", "e", "yeo", "ye", "o", "wa", "wae", "oe", "yo",
       "u", "wo", "we", "wi", "yu", "eu", "ui", "i" >>

\* the vowel of a syllable block, "" for any other codepoint
getLastVowel(char) ==
    LET code == charCodeAt(char) - 44032
    IN IF code < 0 \/ code > 11171 THEN "" ELSE vowels[((code % 588) \div 28) + 1]

\* Set.prototype.add on an insertion-ordered Set kept as a sequence
SetAdd(set, x) ==
    IF \E i \in DOMAIN set : set[i] = x THEN set ELSE Append(set, x)

RECURSIVE AddForms(_, _, _)
AddForms(set, stem, endings) ==
    IF endings = <<>> THEN set
    ELSE AddForms(SetAdd(set, stem \o Head(endings)), stem, Tail(endings))

BrightForms == << <<"a", "yo">>, <<"a">>, <<"ass", "eo", "yo">>, <<"ass", "seup", "ni", "da">> >>
DarkForms == << <<"eo", "yo">>, <<"eo">>, <<"eoss", "eo", "yo">>, <<"eoss", "seup", "ni", "da">> >>
CommonForms ==
    << <<"seup", "ni", "da">>, <<"go">>, <<"ji", "man">>, <<"eo", "seo">>, <<"ni", "kka">>,
       <<"neun">>, <<"eun">>, <<"eul">> >>

\* generateConjugations; with an empty stem lastChar is undefined and
\* hasLastVowel(undefined) throws a TypeError
generateConjugations(d) ==
    IF ~EndsWith(d, da) THEN [threw |-> FALSE, list |-> <<d>>]
    ELSE LET stem == DropLast(d, 1)
         IN IF stem = <<>> THEN [threw |-> TRUE, list |-> <<>>]
            ELSE LET lastChar == stem[Len(stem)]
                     harmony == IF hasLastVowel(lastChar)
                                THEN IF getLastVowel(lastChar) \in {"a", "o"}
                                     THEN BrightForms ELSE DarkForms
                                ELSE <<>>
                 IN [threw |-> FALSE, list |-> AddForms(<<d>>, stem, harmony \o CommonForms)]

RECURSIVE ExtractStemsLoop(_, _, _)
ExtractStemsLoop(stems, w, endings) ==
    IF endings = <<>> THEN stems
    ELSE LET stem == DropLast(w, Len(Head(endings)))
             withStem == SetAdd(stems, stem)
         IN ExtractStemsLoop(IF EndsWith(stem, da) THEN withStem ELSE SetAdd(withStem, stem \o da),
                             w, Tail(endings))

\* extractStems: the word, its bare stem, and what every regular ending leaves
extractStems(w) ==
    ExtractStemsLoop(IF EndsWith(w, da) THEN SetAdd(<<w>>, DropLast(w, 1)) ELSE <<w>>,
                     w, MatchingEndings(w))

couldBeConjugationOf(w, baseForm) ==
    IF w = baseForm THEN TRUE
    ELSE LET stems == extractStems(w)
             baseStem == IF EndsWith(baseForm, da) THEN DropLast(baseForm, 1) ELSE baseForm
         IN \E i \in DOMAIN stems :
               LET cleanStem == IF EndsWith(stems[i], da) THEN DropLast(stems[i], 1) ELSE stems[i]
               IN cleanStem = baseStem \/ stems[i] = baseForm

MaxStemLen == 2
StemAlphabet == {"ga", "da", "meok", "seo", "o", "bJamo"}
DictionaryForms == {s \o e : s \in SeqsUpTo(StemAlphabet, MaxStemLen), e \in {<<>>, da}}

ConjInit ==
    /\ dictionaryForm \in DictionaryForms /\ forms = NoForms /\ recognised = <<>> /\ conjPc = "call"
    /\ StemIdle /\ AnnIdle /\ CsIdle /\ MainIdle

GenerateConjugations ==
    /\ conjPc = "call"
    /\ forms' = generateConjugations(dictionaryForm)
    /\ conjPc' = "check"
    /\ UNCHANGED <<dictionaryForm, recognised, stemVars, annVars, csVars, mainVars>>

\* the next generated form is handed to couldBeConjugationOf with the dictionary form
CouldBeConjugationOf ==
    /\ conjPc = "check"
    /\ Len(recognised) < Len(forms.list)
    /\ recognised' = Append(recognised, couldBeConjugationOf(forms.list[Len(recognised) + 1], dictionaryForm))
    /\ UNCHANGED <<dictionaryForm, forms, conjPc, stemVars, annVars, csVars, mainVars>>

ConjNext == GenerateConjugations \/ CouldBeConjugationOf

SpecConj == ConjInit /\ [][ConjNext]_vars

(* C21: for a dictionary form d = s + "다" with s non-empty,                *)
(* generateConjugations(d) contains d and couldBeConjugationOf(f, d) is    *)
(* TRUE for every form f of the list; for an input not ending in "다" the   *)
(* list is exactly the input.                                              *)
C21_RoundTrip ==
    conjPc = "check" =>
        /\ EndsWith(dictionaryForm, da) /\ Len(dictionaryForm) > 1 =>
              /\ ~forms.threw
              /\ \E i \in DOMAIN forms.list : forms.list[i] = dictionaryForm
              /\ \A i \in DOMAIN recognised : recognised[i]
        /\ ~EndsWith(dictionaryForm, da) =>
              ~forms.threw /\ forms.list = <<dictionaryForm>>

====
